---- MODULE Spec2Model ----
(***************************************************************************)
(* The candidate/project matching engine of converge:                      *)
(*   external/match_users_to_projects.py  six signal scorers, the gate,    *)
(*                                        the file based orchestrator      *)
(*   pipelines/matching_service.py        the database based orchestrator  *)
(*   projects/views.py                    the match_project endpoint       *)
(*                                                                         *)
(* Numbers.  Python floats are modelled as exact fixed-point rationals.    *)
(* A score s is the integer s * SCALE; SCALE is a multiple of 10000 (the   *)
(* resolution of round(x, 4)) and of 2..6, so that every ratio k/n with    *)
(* n <= 6, every multiple of 0.25 and every product (rating/5)*(n/5) is    *)
(* exact.  A weighted sum is kept in units of 1 / (100 * SCALE).           *)
(***************************************************************************)
EXTENDS Integers, Sequences, FiniteSets, TLC

VARIABLES
    pc,                 \* position of the matching request in progress
    engine,             \* entry point of the request
    project,            \* the stored project the request resolves
    pool,               \* the stored candidates, in iteration order
    top_n,              \* requested result size
    idx,                \* number of candidates / passes consumed by the loop
    phase1_passes,      \* candidates kept for scoring
    semantic_candidates,\* every gated candidate (match_project only)
    results,            \* match records appended so far
    stats,              \* resumes_with_embeddings and passed_gate counters
    fallback,           \* the branch at views.py:203 was taken
    response,           \* what the entry point returned
    call,               \* the last direct call of a scorer: fn, args, ret
    module_weights,     \* the module-level WEIGHTS dict of the running process
    ratings_failed,     \* resume ids whose get_global_rating_data call raised
    previous,           \* what an earlier call with the same arguments returned
    parse,              \* parse_resume: attempts made, LLM calls, sleeps
    pipe,               \* process_resume_instance: its locals and the stage that raised
    resume_db,          \* the Resume row as last saved
    profile_db          \* the profile_json of the Profile row as last saved

pipelineVars == << parse, pipe, resume_db, profile_db >>

vars == << pc, engine, project, pool, top_n, idx, phase1_passes,
           semantic_candidates, results, stats, fallback, response, call,
           module_weights, ratings_failed, previous, pipelineVars >>

(***************************************************************************)
(* Bounds of the model.                                                    *)
(***************************************************************************)
MaxPool == 2
MaxTopN == 2
MaxReq == 2
MaxSkillList == 1
MaxYearLen == 2
MaxPreferredYear == 5
MaxCompleted == 6
MaxRatings == 3

(***************************************************************************)
(* Fixed-point arithmetic.                                                 *)
(***************************************************************************)
SCALE == 6 * 10000
ONE == SCALE
SUMSCALE == 100 * SCALE

Min(a, b) == IF a <= b THEN a ELSE b
Max(a, b) == IF a >= b THEN a ELSE b
Abs(a) == IF a < 0 THEN -a ELSE a

\* round(x, 4) of x / unit, returned in units of 1 / SCALE; ties go to even.
Round4(x, unit) ==
    LET step == unit \div 10000
        q == x \div step
        r == x % step
        n == IF 2 * r > step THEN q + 1
             ELSE IF 2 * r < step THEN q
             ELSE IF q % 2 = 0 THEN q ELSE q + 1
    IN  n * (SCALE \div 10000)

None == [t |-> "None"]
Raised(e) == [t |-> "raise", exc |-> e]
Ok(v) == [t |-> "ok", v |-> v]
IsRaise(v) == v.t = "raise"

\* the product of two scores, kept within 32 bits: a is always a multiple of 100 units
Mul(a, b) == ((a \div 100) * b) \div (SCALE \div 100)

\* dict.get(key, default)
Get(d, k, default) == IF k \in DOMAIN d THEN d[k] ELSE default

RECURSIVE SeqSum(_)
SeqSum(s) == IF s = << >> THEN 0 ELSE Head(s) + SeqSum(Tail(s))

SeqsUpTo(S, n) == UNION { [1..k -> S] : k \in 0..n }

(***************************************************************************)
(* Configuration (match_users_to_projects.py:7-32).                        *)
(***************************************************************************)
SEMANTIC_THRESHOLD == -(SCALE \div 2)

\* in hundredths
WEIGHTS_mut == [semantic |-> 20, skill |-> 35, experience |-> 20,
                year |-> 12, reputation |-> 10, availability |-> 8]

WEIGHTS == [semantic |-> 20, skill |-> 30, experience |-> 20,
            year |-> 12, reputation |-> 10, availability |-> 8]

EXPERIENCE_LEVELS == [beginner |-> 1, intermediate |-> 2, advanced |-> 3]

PROJECT_TYPE_EXPERIENCE == [hackathon |-> "intermediate", research |-> "advanced",
                            startup |-> "intermediate", open_source |-> "beginner"]

(***************************************************************************)
(* Phase 1: the semantic gate.  Embeddings are integer vectors whose       *)
(* Euclidean norm is an integer, so the cosine is an exact rational.       *)
(***************************************************************************)
Dot(a, b) == SeqSum([i \in 1..Len(a) |-> a[i] * b[i]])

Isqrt(n) == CHOOSE r \in 0..n : r * r <= n /\ (r + 1) * (r + 1) > n

\* sklearn's normalize(): a zero norm is replaced by 1
SafeNorm(a) == LET n == Isqrt(Dot(a, a)) IN IF n = 0 THEN 1 ELSE n

compute_semantic_similarity_mut(project_embedding, user_embedding) ==
    IF project_embedding = None \/ user_embedding = None
    THEN Raised("ValueError")
    ELSE IF Len(project_embedding) = 0 \/ Len(user_embedding) = 0
    THEN Raised("ValueError")
    ELSE LET n == Min(Len(project_embedding), Len(user_embedding))
         IN  Ok((Dot(SubSeq(project_embedding, 1, n), SubSeq(user_embedding, 1, n)) * SCALE)
                \div (SafeNorm(project_embedding) * SafeNorm(user_embedding)))

\* cosine_similarity raises on arrays without features and on differing widths
compute_semantic_similarity(project_embedding, user_embedding) ==
    IF project_embedding = None \/ user_embedding = None
    THEN Raised("ValueError")
    ELSE IF Len(project_embedding) = 0 \/ Len(user_embedding) = 0
            \/ Len(project_embedding) # Len(user_embedding)
    THEN Raised("ValueError")
    ELSE Ok((Dot(project_embedding, user_embedding) * SCALE)
            \div (SafeNorm(project_embedding) * SafeNorm(user_embedding)))

semantic_gate_mut(project_embedding, user_embedding, threshold) ==
    LET similarity == compute_semantic_similarity(project_embedding, user_embedding)
    IN  IF IsRaise(similarity) THEN similarity
        ELSE [t |-> "ok", passes |-> similarity.v > threshold, similarity |-> similarity.v]

semantic_gate(project_embedding, user_embedding, threshold) ==
    LET similarity == compute_semantic_similarity(project_embedding, user_embedding)
    IN  IF IsRaise(similarity) THEN similarity
        ELSE [t |-> "ok", passes |-> similarity.v >= threshold, similarity |-> similarity.v]

(***************************************************************************)
(* Phase 2: the signal scorers.                                            *)
(***************************************************************************)
\* str.lower() on the skill names of the model
Lower(s) == CASE s = "Python" -> "python"
              [] s = "ML" -> "ml"
              [] s = "SQL" -> "sql"
              [] s = "Security" -> "security"
              [] OTHER -> s

\* the set built by the loop over user_skills.values()
AllUserSkills(user_skills) ==
    UNION { IF user_skills[c].t = "list"
            THEN { Lower(user_skills[c].v[i]) : i \in 1..Len(user_skills[c].v) }
            ELSE {}
          : c \in DOMAIN user_skills }

score_skill_match_mut(required_skills, user_skills) ==
    IF Len(required_skills) = 0 THEN ONE
    ELSE LET all_user_skills == UNION { IF user_skills[c].t = "list"
                    THEN { user_skills[c].v[i] : i \in 1..Len(user_skills[c].v) }
                    ELSE {} : c \in DOMAIN user_skills }
             required_normalized == { Lower(required_skills[i]) : i \in 1..Len(required_skills) }
             intersection == Cardinality(required_normalized \cap all_user_skills)
             score == (intersection * SCALE) \div Cardinality(required_normalized)
         IN  Min(ONE, score)

score_skill_match(required_skills, user_skills) ==
    IF Len(required_skills) = 0 THEN ONE
    ELSE LET all_user_skills == AllUserSkills(user_skills)
             required_normalized == { Lower(required_skills[i]) : i \in 1..Len(required_skills) }
             intersection == Cardinality(required_normalized \cap all_user_skills)
             score == (intersection * SCALE) \div Cardinality(required_normalized)
         IN  Min(ONE, score)

score_experience_alignment_mut(project_type, user_overall_experience) ==
    LET preferred_level == Get(PROJECT_TYPE_EXPERIENCE, project_type, "intermediate")
        preferred_value == Get(EXPERIENCE_LEVELS, preferred_level, 2)
        user_value == Get(EXPERIENCE_LEVELS, user_overall_experience, 1)
    IN  IF user_value = preferred_value THEN ONE
        ELSE IF user_value < preferred_value THEN (8 * SCALE) \div 10
        ELSE (3 * SCALE) \div 10

score_experience_alignment(project_type, user_overall_experience) ==
    LET preferred_level == Get(PROJECT_TYPE_EXPERIENCE, project_type, "intermediate")
        preferred_value == Get(EXPERIENCE_LEVELS, preferred_level, 2)
        user_value == Get(EXPERIENCE_LEVELS, user_overall_experience, 1)
    IN  IF user_value = preferred_value THEN ONE
        ELSE IF user_value < preferred_value THEN (3 * SCALE) \div 10
        ELSE (8 * SCALE) \div 10

\* int(): a year is None, a JSON number, or a string of characters
DigitVal(c) == CASE c = "0" -> 0 [] c = "1" -> 1 [] c = "2" -> 2 [] c = "3" -> 3
                 [] c = "4" -> 4 [] c = "5" -> 5 [] c = "6" -> 6 [] c = "7" -> 7
                 [] c = "8" -> 8 [] c = "9" -> 9 [] OTHER -> -1

RECURSIVE LStrip(_)
LStrip(s) == IF s # << >> /\ Head(s) = " " THEN LStrip(Tail(s)) ELSE s

RECURSIVE RStrip(_)
RStrip(s) == IF s # << >> /\ s[Len(s)] = " " THEN RStrip(SubSeq(s, 1, Len(s) - 1)) ELSE s

RECURSIVE DigitsVal(_, _)
DigitsVal(s, acc) == IF s = << >> THEN acc ELSE DigitsVal(Tail(s), 10 * acc + DigitVal(Head(s)))

ParseInt(v) ==
    IF v.t = "None" THEN Raised("TypeError")
    ELSE IF v.t = "int" THEN Ok(v.n)
    ELSE LET s == RStrip(LStrip(v.s))
             signed == s # << >> /\ Head(s) \in {"-", "+"}
             digits == IF signed THEN Tail(s) ELSE s
         IN  IF digits = << >> \/ \E i \in 1..Len(digits) : DigitVal(digits[i]) < 0
             THEN Raised("ValueError")
             ELSE IF signed /\ Head(s) = "-" THEN Ok(-DigitsVal(digits, 0))
             ELSE Ok(DigitsVal(digits, 0))

score_year_compatibility_mut(user_year, preferred_year) ==
    IF preferred_year = None THEN ONE
    ELSE LET user_year_int == ParseInt(user_year)
         IN  IF IsRaise(user_year_int) THEN ONE
             ELSE LET year_diff == Abs(user_year_int.v - preferred_year.n)
                      score == ONE - (SCALE \div 4) * year_diff
                  IN  Min(ONE, score)

score_year_compatibility(user_year, preferred_year) ==
    IF preferred_year = None THEN ONE
    ELSE LET user_year_int == ParseInt(user_year)
         IN  IF IsRaise(user_year_int) THEN ONE
             ELSE LET year_diff == Abs(user_year_int.v - preferred_year.n)
                      score == Max(0, ONE - (SCALE \div 4) * year_diff)
                  IN  Min(ONE, score)

\* average_rating in thousandths of a star
score_reputation_mut(average_rating, completed_projects) ==
    LET confidence_factor == Min(ONE, (completed_projects * SCALE) \div 5)
        normalized_rating == IF average_rating > 0 THEN (average_rating * SCALE) \div 5000 ELSE ONE
        score == Mul(normalized_rating, confidence_factor)
    IN  Min(ONE, score)

score_reputation(average_rating, completed_projects) ==
    IF completed_projects = 0 THEN ONE
    ELSE LET confidence_factor == Min(ONE, (completed_projects * SCALE) \div 5)
             normalized_rating == IF average_rating > 0 THEN (average_rating * SCALE) \div 5000 ELSE ONE
             score == Mul(normalized_rating, confidence_factor)
         IN  Min(ONE, score)

LowerAvail(s) == CASE s = "High" -> "high"
                   [] s = "MEDIUM" -> "medium"
                   [] s = "Low" -> "low"
                   [] OTHER -> s

score_availability(availability) ==
    IF availability = None THEN Raised("AttributeError")
    ELSE LET a == LowerAvail(availability.s)
         IN  CASE a = "high" -> Ok(ONE)
               [] a = "medium" -> Ok((7 * SCALE) \div 10)
               [] a = "low" -> Ok((4 * SCALE) \div 10)
               [] OTHER -> Ok(SCALE \div 2)

\* the weighted sum before the clamp, in units of 1 / SUMSCALE
WeightedSum(sem, skill, exper, year, rep, avail, weights) ==
    weights.semantic * sem + weights.skill * skill + weights.experience * exper
    + weights.year * year + weights.reputation * rep + weights.availability * avail

compute_final_score_mut(sem, skill, exper, year, rep, avail) ==
    Min(SUMSCALE, module_weights.semantic * sem + module_weights.skill * skill
                  + module_weights.experience * exper + module_weights.year * year
                  + module_weights.reputation * rep - module_weights.availability * avail)

compute_final_score(sem, skill, exper, year, rep, avail) ==
    Min(SUMSCALE, WeightedSum(sem, skill, exper, year, rep, avail, module_weights))

(***************************************************************************)
(* Stored data the requests read.                                          *)
(***************************************************************************)
Str(s) == [t |-> "str", s |-> s]
Num(n) == [t |-> "int", n |-> n]
List(v) == [t |-> "list", v |-> v]

\* a falsy embedding: None or []
Truthy(embedding) == embedding # None /\ embedding # << >>

ProjectEmbedding == << 3, 4 >>

\* cosine against ProjectEmbedding: 1, -0.28, -0.96, -1; a resume without
\* embedding; and an embedding of another width
PoolEmbeddings == { << 3, 4 >>, << 3, -4 >>, << -4, -3 >>, << -3, -4 >>, << >>, << 1, 0, 0 >> }

\* for direct calls of the gate: also 0.96 and the zero vector
GateEmbeddings == PoolEmbeddings \cup { << 4, 3 >>, << 0, 0 >> }

ResumeStrong ==
    [profile |-> [name |-> "A", year |-> Str(<< "2", "4" >>), availability |-> Str("high")],
     skills |-> [languages |-> List(<< "python" >>), tools |-> List(<< "Security" >>)],
     experience_level |-> [overall |-> "intermediate"],
     reputation_signals |-> [average_rating |-> 0, completed_projects |-> 0]]

ResumeRated ==
    [profile |-> [name |-> "B", availability |-> Str("Low")],
     skills |-> [languages |-> List(<< "Python" >>)],
     experience_level |-> [overall |-> "advanced"],
     reputation_signals |-> [average_rating |-> 4000, completed_projects |-> 3]]

\* the parser left availability null
ResumeNullAvailability ==
    [profile |-> [name |-> "C", availability |-> None],
     skills |-> [languages |-> List(<< "python" >>)]]

\* parsed_json is null, or the resume file is missing
ResumeEmpty == << >>

ResumeDocs == { ResumeStrong, ResumeRated, ResumeNullAvailability, ResumeEmpty }

Candidates == [embedding : PoolEmbeddings, json : ResumeDocs]

Pools == SeqsUpTo(Candidates, MaxPool)

ProjectHackathon == [required_skills |-> << "Python", "security" >>, project_type |-> "hackathon"]

\* no stored project JSON / metadata
ProjectNoJson == << >>

NoProject == [t |-> "DoesNotExist"]

Projects == { NoProject }
            \cup [embedding : { ProjectEmbedding, << >> }, json : { ProjectHackathon, ProjectNoJson }]

TopNs == 0..MaxTopN

(***************************************************************************)
(* list.sort(key=..., reverse=True): stable, descending.                   *)
(***************************************************************************)
\* the place of r in a descending list: behind every element that is not smaller
InsertDesc_mut(sorted, r, key) ==
    LET k == Cardinality({ i \in 1..Len(sorted) : sorted[i][key] > r[key] })
    IN  SubSeq(sorted, 1, k) \o << r >> \o SubSeq(sorted, k + 1, Len(sorted))

InsertDesc(sorted, r, key) ==
    LET k == Cardinality({ i \in 1..Len(sorted) : sorted[i][key] >= r[key] })
    IN  SubSeq(sorted, 1, k) \o << r >> \o SubSeq(sorted, k + 1, Len(sorted))

RECURSIVE SortDescFrom(_, _, _)
SortDescFrom(sorted, rest, key) ==
    IF rest = << >> THEN sorted
    ELSE SortDescFrom(InsertDesc(sorted, Head(rest), key), Tail(rest), key)

SortDesc(s, key) == SortDescFrom(<< >>, s, key)

Slice_mut(s, n) == IF n >= 0 THEN SubSeq(s, Len(s) - Min(n, Len(s)) + 1, Len(s))
                   ELSE SubSeq(s, 1, Max(0, Len(s) + n))

\* s[:n]
Slice(s, n) == IF n >= 0 THEN SubSeq(s, 1, Min(n, Len(s)))
               ELSE SubSeq(s, 1, Max(0, Len(s) + n))

(***************************************************************************)
(* Phase 2 for one candidate: the six signals and the composite.           *)
(***************************************************************************)
SixSignals_mut(semantic_score, user_json, project_json, default_year) ==
    LET profile == Get(user_json, "profile", << >>)
        skills == Get(user_json, "skills", << >>)
        experience == Get(user_json, "experience_level", << >>)
        reputation == Get(user_json, "reputation_signals", << >>)
        required_skills == Get(project_json, "required_skills", << >>)
        project_type == Get(project_json, "project_type", "hackathon")
        availability_score == score_availability(Get(profile, "availability", Str("medium")))
        s == [semantic |-> semantic_score,
              skill |-> score_skill_match(required_skills, skills),
              experience |-> score_experience_alignment(project_type,
                                    Get(experience, "overall", "beginner")),
              year |-> score_year_compatibility(Get(profile, "year", default_year), Num(3)),
              reputation |-> score_reputation(Get(reputation, "average_rating", 0),
                                              Get(reputation, "completed_projects", 0)),
              availability |-> availability_score.v]
    IN  IF IsRaise(availability_score) THEN availability_score
        ELSE [t |-> "ok", s |-> s,
              final_score |-> compute_final_score(s.semantic, s.skill, s.experience,
                                                  s.year, s.reputation, s.availability),
              profile |-> profile]

SixSignals(semantic_score, user_json, project_json, default_year) ==
    LET profile == Get(user_json, "profile", << >>)
        skills == Get(user_json, "skills", << >>)
        experience == Get(user_json, "experience_level", << >>)
        reputation == Get(user_json, "reputation_signals", << >>)
        required_skills == Get(project_json, "required_skills", << >>)
        project_type == Get(project_json, "project_type", "hackathon")
        availability_score == score_availability(Get(profile, "availability", Str("medium")))
        s == [semantic |-> semantic_score,
              skill |-> score_skill_match(required_skills, skills),
              experience |-> score_experience_alignment(project_type,
                                    Get(experience, "overall", "beginner")),
              year |-> score_year_compatibility(Get(profile, "year", default_year), None),
              reputation |-> score_reputation(Get(reputation, "average_rating", 0),
                                              Get(reputation, "completed_projects", 0)),
              availability |-> availability_score.v]
    IN  IF IsRaise(availability_score) THEN availability_score
        ELSE [t |-> "ok", s |-> s,
              final_score |-> compute_final_score(s.semantic, s.skill, s.experience,
                                                  s.year, s.reputation, s.availability),
              profile |-> profile]

\* match_users_to_projects.py:429-452
CliRecord(user_id, sig) ==
    [user_id |-> user_id,
     final_score |-> Round4(sig.final_score, SUMSCALE),
     semantic_score |-> Round4(sig.s.semantic, SCALE),
     skill_score |-> Round4(sig.s.skill, SCALE),
     experience_score |-> Round4(sig.s.experience, SCALE),
     year_score |-> Round4(sig.s.year, SCALE),
     reputation_score |-> Round4(sig.s.reputation, SCALE),
     availability_score |-> Round4(sig.s.availability, SCALE),
     profile |-> [name |-> Get(sig.profile, "name", "Unknown"),
                  year |-> Get(sig.profile, "year", Str("Unknown")),
                  availability |-> Get(sig.profile, "availability", Str("Unknown"))],
     score_breakdown |-> [w_semantic |-> module_weights.semantic * sig.s.semantic,
                          w_skill |-> module_weights.skill * sig.s.skill,
                          w_experience |-> module_weights.experience * sig.s.experience,
                          w_year |-> module_weights.year * sig.s.year,
                          w_reputation |-> module_weights.reputation * sig.s.reputation,
                          w_availability |-> module_weights.availability * sig.s.availability]]

\* matching_service.py:104-114
ServiceRecord(user_id, sig) ==
    [user_id |-> user_id,
     name |-> user_id,
     final_score |-> Round4(sig.final_score, SUMSCALE),
     semantic_score |-> Round4(sig.s.semantic, SCALE),
     skill_score |-> Round4(sig.s.skill, SCALE),
     experience_score |-> Round4(sig.s.experience, SCALE),
     year_score |-> Round4(sig.s.year, SCALE),
     reputation_score |-> Round4(sig.s.reputation, SCALE),
     availability_score |-> Round4(sig.s.availability, SCALE)]

(***************************************************************************)
(* The ratings collaborator (ratings/services.py).  Ratings are in         *)
(* thousandths of a star.                                                  *)
(***************************************************************************)
PRIOR_MEAN == 3500
PRIOR_WEIGHT == 3

\* the Rating rows of the database
StoredRatings == << [ratee_id |-> 1, adjusted_rating |-> 4200],
                    [ratee_id |-> 1, adjusted_rating |-> 2750] >>

\* round(x, 3) of num / den thousandths, ties to even
Round3(num, den) ==
    LET q == num \div den
        r == num % den
    IN  IF 2 * r > den THEN q + 1
        ELSE IF 2 * r < den THEN q
        ELSE IF q % 2 = 0 THEN q ELSE q + 1

get_global_rating_data_mut(ratings, ratee_id) ==
    LET qs == ratings
        count == Len(qs)
        sum_adj == SeqSum([i \in 1..count |-> qs[i].adjusted_rating])
    IN  IF count = 0 THEN [global_rating |-> PRIOR_MEAN, ratings_count |-> 0]
        ELSE [global_rating |-> Round3(PRIOR_MEAN * PRIOR_WEIGHT + sum_adj, PRIOR_WEIGHT + count),
              ratings_count |-> count]

get_global_rating_data(ratings, ratee_id) ==
    LET qs == SelectSeq(ratings, LAMBDA r : r.ratee_id = ratee_id)
        count == Len(qs)
        sum_adj == SeqSum([i \in 1..count |-> qs[i].adjusted_rating])
    IN  IF count = 0 THEN [global_rating |-> PRIOR_MEAN, ratings_count |-> 0]
        ELSE [global_rating |-> Round3(PRIOR_MEAN * PRIOR_WEIGHT + sum_adj, PRIOR_WEIGHT + count),
              ratings_count |-> count]

(***************************************************************************)
(* Parts of match_project whose code is not in the repository's sources:   *)
(* the filter is the gate of section 4.1, the two-layer score is stood in  *)
(* for by the six-signal composite of section 4.7.                         *)
(***************************************************************************)
semantic_relevance_filter(project_embedding, user_embedding) ==
    LET g == semantic_gate(project_embedding, user_embedding, SEMANTIC_THRESHOLD)
    IN  IF IsRaise(g) THEN g
        ELSE [t |-> "ok", passes |-> g.passes, similarity |-> g.similarity,
              interpretation |-> IF g.passes THEN "relevant" ELSE "weak"]

TwoLayerFinalScore(semantic_score, user_json, project_json, global_rating) ==
    LET sig == SixSignals(semantic_score, user_json, project_json, Str(<< >>))
    IN  IF IsRaise(sig) THEN sig ELSE Ok(Round4(sig.final_score, SUMSCALE))

(***************************************************************************)
(* State machine.                                                          *)
(***************************************************************************)
NoCall == [fn |-> "none"]
NoResponse == [kind |-> "pending"]
Return(v) == [kind |-> "return", value |-> v]
Raise(e) == [kind |-> "raise", exc |-> e]
Http(status, body) == [kind |-> "http", status |-> status, body |-> body]
ZeroStats == [total_resumes |-> 0, resumes_with_embeddings |-> 0, passed_gate |-> 0]

NoParse == [attempt |-> 0, replies |-> << >>, sleeps |-> 0]

\* the rows as profiles/views.py:45-59 creates them
NewResume == [raw_text |-> "", parsed_json |-> << >>, semantic_text |-> None,
              embedding |-> None, saves |-> 0]
NewProfile == [profile_json |-> None, saves |-> 0]

NoPipe == [raw_text |-> None, parsed_json |-> None, semantic_text |-> None,
           embedding |-> None, raised |-> "none"]

Init ==
    /\ pc = "idle"
    /\ engine = "none"
    /\ project = NoProject
    /\ pool = << >>
    /\ top_n = 0
    /\ idx = 0
    /\ phase1_passes = << >>
    /\ semantic_candidates = << >>
    /\ results = << >>
    /\ stats = ZeroStats
    /\ fallback = FALSE
    /\ response = NoResponse
    /\ call = NoCall
    /\ module_weights = WEIGHTS
    /\ ratings_failed = {}
    /\ previous = NoResponse
    /\ parse = NoParse
    /\ pipe = NoPipe
    /\ resume_db = NewResume
    /\ profile_db = NewProfile

Idle == pc = "idle" /\ call = NoCall

\* ---- match_users_to_project (match_users_to_projects.py:318-459) ----
ReceiveCli ==
    /\ Idle
    /\ \E p \in Projects, cands \in Pools :
           /\ engine' = "cli"
           /\ project' = p
           /\ pool' = cands
           /\ IF p = NoProject
              THEN pc' = "done" /\ response' = Return(<< >>)
              ELSE pc' = "gate" /\ UNCHANGED response
           /\ UNCHANGED << top_n, idx, phase1_passes, semantic_candidates, results, stats,
                           fallback, call >>
    /\ UNCHANGED << module_weights, ratings_failed, previous, pipelineVars >>

CliGateStep ==
    /\ pc = "gate" /\ engine = "cli" /\ idx < Len(pool)
    /\ LET user_id == idx + 1
           user_data == pool[user_id]
           g == semantic_gate(project.embedding, user_data.embedding, SEMANTIC_THRESHOLD)
       IN  IF IsRaise(g)
           THEN /\ pc' = "done"
                /\ response' = Raise(g.exc)
                /\ UNCHANGED << idx, phase1_passes >>
           ELSE /\ idx' = idx + 1
                /\ phase1_passes' =
                      IF g.passes
                      THEN Append(phase1_passes,
                                  [user_id |-> user_id, semantic_score |-> g.similarity,
                                   user_json |-> user_data.json])
                      ELSE phase1_passes
                /\ UNCHANGED << pc, response >>
    /\ UNCHANGED << engine, project, pool, top_n, semantic_candidates, results, stats,
                    fallback, call >>
    /\ UNCHANGED << module_weights, ratings_failed, previous, pipelineVars >>

CliGateDone ==
    /\ pc = "gate" /\ engine = "cli" /\ idx = Len(pool)
    /\ IF phase1_passes = << >>
       THEN pc' = "done" /\ response' = Return(<< >>) /\ UNCHANGED idx
       ELSE pc' = "score" /\ idx' = 0 /\ UNCHANGED response
    /\ UNCHANGED << engine, project, pool, top_n, phase1_passes, semantic_candidates,
                    results, stats, fallback, call >>
    /\ UNCHANGED << module_weights, ratings_failed, previous, pipelineVars >>

CliScoreStep ==
    /\ pc = "score" /\ engine = "cli" /\ idx < Len(phase1_passes)
    /\ LET candidate == phase1_passes[idx + 1]
           sig == SixSignals(candidate.semantic_score, candidate.user_json, project.json,
                             Str(<< "2", "0", "2", "4" >>))
       IN  IF IsRaise(sig)
           THEN pc' = "done" /\ response' = Raise(sig.exc) /\ UNCHANGED << idx, results >>
           ELSE /\ results' = Append(results, CliRecord(candidate.user_id, sig))
                /\ idx' = idx + 1
                /\ UNCHANGED << pc, response >>
    /\ UNCHANGED << engine, project, pool, top_n, phase1_passes, semantic_candidates,
                    stats, fallback, call >>
    /\ UNCHANGED << module_weights, ratings_failed, previous, pipelineVars >>

CliFinish ==
    /\ pc = "score" /\ engine = "cli" /\ idx = Len(phase1_passes)
    /\ results' = SortDesc(results, "final_score")
    /\ response' = Return(results')
    /\ pc' = "done"
    /\ UNCHANGED << engine, project, pool, top_n, idx, phase1_passes, semantic_candidates,
                    stats, fallback, call >>
    /\ UNCHANGED << module_weights, ratings_failed, previous, pipelineVars >>

\* the caller calls match_users_to_project once more with the same project id and
\* the same files: lines 336-358 build the locals afresh
CliAgain ==
    /\ pc = "done" /\ engine = "cli" /\ previous = NoResponse
    /\ previous' = response
    /\ idx' = 0
    /\ phase1_passes' = << >>
    /\ results' = << >>
    /\ IF project = NoProject
       THEN pc' = "done" /\ response' = Return(<< >>)
       ELSE pc' = "gate" /\ response' = NoResponse
    /\ UNCHANGED << engine, project, pool, top_n, semantic_candidates, stats, fallback, call,
                    module_weights, ratings_failed, pipelineVars >>

\* ---- the script entry (match_users_to_projects.py:503-521) ----
Exit(status, matches, exported) ==
    [kind |-> "exit", status |-> status, matches |-> matches, exported |-> exported]

\* match_users_to_projects.py:506-509: no project id on the command line
MainNoArgs ==
    /\ Idle
    /\ engine' = "cli"
    /\ pc' = "usage"
    /\ response' = Exit(1, << >>, FALSE)
    /\ UNCHANGED << project, pool, top_n, idx, phase1_passes, semantic_candidates, results,
                    stats, fallback, call, module_weights, ratings_failed, previous, pipelineVars >>

\* match_users_to_projects.py:511-521: display, export and the end of the script;
\* an exception of match_users_to_project is not caught and ends the interpreter
\* with status 1, a return lets the script run to its end with status 0
MainExit ==
    /\ pc = "done" /\ engine = "cli"
    /\ pc' = "exited"
    /\ response' = IF response.kind = "raise"
                   THEN Exit(1, << >>, FALSE)
                   ELSE Exit(0, response.value, response.value # << >>)
    /\ UNCHANGED << engine, project, pool, top_n, idx, phase1_passes, semantic_candidates,
                    results, stats, fallback, call, module_weights, ratings_failed, previous, pipelineVars >>

\* ---- match_users_for_project (matching_service.py:18-127) ----
ReceiveService ==
    /\ Idle
    /\ \E p \in Projects, cands \in Pools, n \in TopNs :
           /\ engine' = "service"
           /\ project' = p
           /\ pool' = cands
           /\ top_n' = n
           /\ IF p = NoProject \/ ~Truthy(p.embedding)
              THEN pc' = "done" /\ response' = Return(<< >>) /\ UNCHANGED stats
              ELSE /\ pc' = "loop"
                   /\ stats' = [ZeroStats EXCEPT !.total_resumes = Len(cands)]
                   /\ UNCHANGED response
           /\ UNCHANGED << idx, phase1_passes, semantic_candidates, results, fallback, call >>
    /\ UNCHANGED << module_weights, ratings_failed, previous, pipelineVars >>

ServiceLoopStep ==
    /\ pc = "loop" /\ engine = "service" /\ idx < Len(pool)
    /\ LET reg_num == idx + 1
           resume == pool[reg_num]
           g == semantic_gate(project.embedding, resume.embedding, SEMANTIC_THRESHOLD)
           sig == SixSignals(g.similarity, resume.json, project.json, Str(<< >>))
       IN  IF ~Truthy(resume.embedding)
           THEN idx' = idx + 1 /\ UNCHANGED << pc, response, results, stats >>
           ELSE IF IsRaise(g)
           THEN pc' = "done" /\ response' = Raise(g.exc) /\ UNCHANGED << idx, results, stats >>
           ELSE IF ~g.passes
           THEN /\ idx' = idx + 1
                /\ stats' = [stats EXCEPT !.resumes_with_embeddings = @ + 1]
                /\ UNCHANGED << pc, response, results >>
           ELSE IF IsRaise(sig)
           THEN /\ pc' = "done" /\ response' = Raise(sig.exc)
                /\ stats' = [stats EXCEPT !.resumes_with_embeddings = @ + 1,
                                          !.passed_gate = @ + 1]
                /\ UNCHANGED << idx, results >>
           ELSE /\ idx' = idx + 1
                /\ stats' = [stats EXCEPT !.resumes_with_embeddings = @ + 1,
                                          !.passed_gate = @ + 1]
                /\ results' = Append(results, ServiceRecord(reg_num, sig))
                /\ UNCHANGED << pc, response >>
    /\ UNCHANGED << engine, project, pool, top_n, phase1_passes, semantic_candidates,
                    fallback, call >>
    /\ UNCHANGED << module_weights, ratings_failed, previous, pipelineVars >>

ServiceFinish ==
    /\ pc = "loop" /\ engine = "service" /\ idx = Len(pool)
    /\ results' = SortDesc(results, "final_score")
    /\ response' = Return(Slice(results', top_n))
    /\ pc' = "done"
    /\ UNCHANGED << engine, project, pool, top_n, idx, phase1_passes, semantic_candidates,
                    stats, fallback, call >>
    /\ UNCHANGED << module_weights, ratings_failed, previous, pipelineVars >>

ServiceAgain_mut ==
    /\ pc = "done" /\ engine = "service" /\ previous = NoResponse
    /\ previous' = response
    /\ idx' = 0
    /\ IF project = NoProject \/ ~Truthy(project.embedding)
       THEN pc' = "done" /\ response' = Return(<< >>) /\ UNCHANGED stats
       ELSE /\ pc' = "loop"
            /\ stats' = [ZeroStats EXCEPT !.total_resumes = Len(pool)]
            /\ response' = NoResponse
    /\ UNCHANGED << engine, project, pool, top_n, phase1_passes, semantic_candidates, results,
                    fallback, call, module_weights, ratings_failed,
                    pipelineVars >>

\* the caller calls match_users_for_project once more with the same arguments over
\* the same rows: lines 45-48 build the locals afresh
ServiceAgain ==
    /\ pc = "done" /\ engine = "service" /\ previous = NoResponse
    /\ previous' = response
    /\ idx' = 0
    /\ results' = << >>
    /\ IF project = NoProject \/ ~Truthy(project.embedding)
       THEN pc' = "done" /\ response' = Return(<< >>) /\ UNCHANGED stats
       ELSE /\ pc' = "loop"
            /\ stats' = [ZeroStats EXCEPT !.total_resumes = Len(pool)]
            /\ response' = NoResponse
    /\ UNCHANGED << engine, project, pool, top_n, phase1_passes, semantic_candidates,
                    fallback, call, module_weights, ratings_failed,
                    pipelineVars >>

\* ---- match_project (projects/views.py:121-346); the request has no body ----
ReceiveView ==
    /\ Idle
    /\ \E p \in Projects, cands \in Pools, n \in TopNs :
           /\ engine' = "view"
           /\ project' = p
           /\ pool' = cands
           /\ top_n' = n
           /\ IF p = NoProject
              THEN pc' = "done" /\ response' = Http(404, [error |-> "not found"]) /\ UNCHANGED stats
              ELSE IF ~Truthy(p.embedding)
              THEN pc' = "done" /\ response' = Http(400, [error |-> "no embedding"]) /\ UNCHANGED stats
              ELSE IF p.json = << >>
              THEN pc' = "done" /\ response' = Http(400, [error |-> "no project JSON"]) /\ UNCHANGED stats
              ELSE /\ pc' = "gate"
                   /\ stats' = [ZeroStats EXCEPT !.total_resumes = Len(cands)]
                   /\ UNCHANGED response
           /\ UNCHANGED << idx, phase1_passes, semantic_candidates, results, fallback, call >>
    /\ UNCHANGED << module_weights, ratings_failed, previous, pipelineVars >>

ViewGateStep ==
    /\ pc = "gate" /\ engine = "view" /\ idx < Len(pool)
    /\ LET resume_id == idx + 1
           resume_emb == pool[resume_id]
           f == semantic_relevance_filter(project.embedding, resume_emb.embedding)
       IN  IF ~Truthy(resume_emb.embedding)
           THEN /\ idx' = idx + 1
                /\ UNCHANGED << pc, response, phase1_passes, semantic_candidates, stats >>
           ELSE IF IsRaise(f)
           THEN /\ pc' = "done"
                /\ response' = Http(500, [error |-> "Matching failed"])
                /\ stats' = [stats EXCEPT !.resumes_with_embeddings = @ + 1]
                /\ UNCHANGED << idx, phase1_passes, semantic_candidates >>
           ELSE /\ idx' = idx + 1
                /\ semantic_candidates' =
                      Append(semantic_candidates,
                             [resume_id |-> resume_id, embedding |-> resume_emb.embedding,
                              semantic_score |-> f.similarity,
                              interpretation |-> f.interpretation, passed |-> f.passes])
                /\ stats' = [stats EXCEPT !.resumes_with_embeddings = @ + 1,
                                          !.passed_gate = IF f.passes THEN @ + 1 ELSE @]
                /\ phase1_passes' =
                      IF f.passes
                      THEN Append(phase1_passes,
                                  [resume_id |-> resume_id, embedding |-> resume_emb.embedding,
                                   semantic_score |-> f.similarity])
                      ELSE phase1_passes
                /\ UNCHANGED << pc, response >>
    /\ UNCHANGED << engine, project, pool, top_n, results, fallback, call >>
    /\ UNCHANGED << module_weights, ratings_failed, previous, pipelineVars >>

\* views.py:202-214: the fallback
ViewGateDone ==
    /\ pc = "gate" /\ engine = "view" /\ idx = Len(pool)
    /\ IF phase1_passes = << >> /\ semantic_candidates # << >>
       THEN LET sorted == SortDesc(semantic_candidates, "semantic_score")
                top_semantic == Slice(sorted, top_n)
            IN  /\ semantic_candidates' = sorted
                /\ phase1_passes' =
                      [i \in 1..Len(top_semantic) |->
                          [resume_id |-> top_semantic[i].resume_id,
                           embedding |-> top_semantic[i].embedding,
                           semantic_score |-> top_semantic[i].semantic_score]]
                /\ fallback' = TRUE
       ELSE UNCHANGED << semantic_candidates, phase1_passes, fallback >>
    /\ pc' = "score"
    /\ idx' = 0
    /\ UNCHANGED << engine, project, pool, top_n, results, stats, response, call >>
    /\ UNCHANGED << module_weights, ratings_failed, previous, pipelineVars >>

\* views.py:234-300; the ratings service answers or is unavailable
ViewScoreStep ==
    /\ pc = "score" /\ engine = "view" /\ idx < Len(phase1_passes)
    /\ \E ratings_up \in BOOLEAN :
       LET candidate == phase1_passes[idx + 1]
           resume_id == candidate.resume_id
           user_json == pool[resume_id].json
           profile == Get(user_json, "profile", << >>)
           reputation == Get(user_json, "reputation_signals", << >>)
           global_rating_data ==
               IF ratings_up
               THEN get_global_rating_data(StoredRatings, resume_id)
               ELSE [global_rating |-> Get(reputation, "average_rating", PRIOR_MEAN),
                     ratings_count |-> 0]
           availability == Get(profile, "availability", Str("medium"))
           final == TwoLayerFinalScore(candidate.semantic_score, user_json, project.json,
                                       global_rating_data.global_rating)
       IN  /\ ratings_failed' = IF ratings_up THEN ratings_failed
                                              ELSE ratings_failed \cup { resume_id }
           /\ IF IsRaise(final)
              THEN /\ pc' = "done"
                   /\ response' = Http(500, [error |-> "Matching failed"])
                   /\ UNCHANGED << idx, results >>
              ELSE /\ results' = Append(results,
                                        [resume_id |-> resume_id,
                                         final_score |-> final.v,
                                         ratings |-> global_rating_data,
                                         profile |-> [name |-> Get(profile, "name", "Unknown"),
                                                      year |-> Get(profile, "year", Str("Unknown")),
                                                      availability |-> availability]])
                   /\ idx' = idx + 1
                   /\ UNCHANGED << pc, response >>
    /\ UNCHANGED << engine, project, pool, top_n, phase1_passes, semantic_candidates,
                    stats, fallback, call >>
    /\ UNCHANGED << module_weights, previous, pipelineVars >>

\* views.py:302-333
ViewFinish ==
    /\ pc = "score" /\ engine = "view" /\ idx = Len(phase1_passes)
    /\ results' = SortDesc(results, "final_score")
    /\ response' = Http(200,
          [project_id |-> "project",
           project_type |-> Get(project.json, "project_type", "hackathon"),
           alpha |-> "PROJECT_TYPE_ALPHA",
           matches |-> results',
           count |-> Len(results'),
           top_n_requested |-> top_n,
           project_metadata |-> [required_skills |-> Get(project.json, "required_skills", << >>),
                                 project_type |-> Get(project.json, "project_type", None)],
           stats |-> [total_resumes |-> stats.total_resumes,
                      with_embeddings |-> stats.resumes_with_embeddings,
                      passed_filter |-> stats.passed_gate]])
    /\ pc' = "done"
    /\ UNCHANGED << engine, project, pool, top_n, idx, phase1_passes, semantic_candidates,
                    stats, fallback, call >>
    /\ UNCHANGED << module_weights, ratings_failed, previous, pipelineVars >>

(***************************************************************************)
(* The resume pipeline: parse_resume (external/parse_resume.py) and         *)
(* process_resume_instance (pipelines/resume_pipeline.py).  Texts are       *)
(* modelled by the class of their content.                                  *)
(***************************************************************************)
MAX_RETRIES == 3

\* what one CLIENT.models.generate_content call can give (parse_resume.py:185-196):
\* an exception, a response without text, or a text that is a JSON object, an
\* object inside a markdown fence, an object with a trailing comma, an object
\* beyond repair, prose without braces, a JSON array, a JSON string, or a JSON
\* null / number / boolean
LlmReplies == { "api_error", "no_text", "object", "fenced_object", "trailing_comma",
                "broken_object", "prose", "array", "string", "scalar" }

Parsed(kind) == [json |-> kind, source |-> "llm"]

\* RESUME_SCHEMA.copy()
MinimalSchema == [json |-> "object", source |-> "RESUME_SCHEMA"]

extract_json(text) ==
    CASE text \in { "object", "array", "string", "scalar" } -> Ok(Parsed(text))
      [] text = "fenced_object" -> Ok(Parsed("object"))
      [] text = "trailing_comma" -> Ok(Parsed("object"))
      [] text = "broken_object" -> Ok(MinimalSchema)
      [] OTHER -> Raised("ValueError")

\* the body of the try block, parse_resume.py:184-201; len() at lines 197 and 200
ParseAttemptBody(reply) ==
    IF reply = "api_error" THEN Raised("APIError")
    ELSE IF reply = "no_text" THEN Raised("TypeError")
    ELSE LET parsed_json == extract_json(reply)
         IN  IF IsRaise(parsed_json) THEN parsed_json
             ELSE IF parsed_json.v.json = "scalar" THEN Raised("TypeError")
             ELSE parsed_json

ParseStart ==
    /\ Idle
    /\ engine' = "parse_resume"
    /\ pc' = "parse"
    /\ parse' = [attempt |-> 1, replies |-> << >>, sleeps |-> 0]
    /\ UNCHANGED << project, pool, top_n, idx, phase1_passes, semantic_candidates, results,
                    stats, fallback, response, call, module_weights, ratings_failed,
                    previous, pipe, resume_db, profile_db >>

\* one iteration of the loop at parse_resume.py:182-210
ParseAttempt ==
    /\ pc = "parse" /\ engine = "parse_resume"
    /\ \E reply \in LlmReplies :
          LET r == ParseAttemptBody(reply)
          IN  IF ~IsRaise(r)
              THEN /\ parse' = [parse EXCEPT !.replies = Append(@, reply)]
                   /\ response' = Return(r.v)
                   /\ pc' = "parsed"
              ELSE IF parse.attempt < MAX_RETRIES
              THEN /\ parse' = [attempt |-> parse.attempt + 1,
                                replies |-> Append(parse.replies, reply),
                                sleeps |-> parse.sleeps + 1]
                   /\ UNCHANGED << pc, response >>
              ELSE /\ parse' = [parse EXCEPT !.replies = Append(@, reply)]
                   /\ response' = Return(MinimalSchema)
                   /\ pc' = "parsed"
    /\ UNCHANGED << engine, project, pool, top_n, idx, phase1_passes, semantic_candidates,
                    results, stats, fallback, call, module_weights, ratings_failed,
                    previous, pipe, resume_db, profile_db >>

\* what parse_resume can return
ParseResults == { Parsed("object"), Parsed("array"), Parsed("string"), MinimalSchema }

RawTexts == { "", "text" }
SemanticTexts == { "", "semantic text" }
TextLen(t) == IF t = "" THEN 0 ELSE 4

\* embed_resume.py:22-49; the 768 dimensions are modelled by 2
embed_semantic_text(text, api_up) ==
    IF text = "" THEN Ok(<< 0, 0 >>)
    ELSE IF api_up THEN Ok(<< 3, 4 >>)
    ELSE Raised("APIError")

\* resume_pipeline.py:102-107
PipeFail(stage) ==
    /\ pipe' = [pipe EXCEPT !.raised = stage]
    /\ response' = Return(None)
    /\ pc' = "piped"

\* resume_pipeline.py:14-26; resume.file.path raises without a file
PipeStart ==
    /\ Idle
    /\ engine' = "pipeline"
    /\ \E has_file \in BOOLEAN :
          IF has_file THEN pc' = "ocr" /\ UNCHANGED << pipe, response >>
          ELSE PipeFail("path")
    /\ UNCHANGED << project, pool, top_n, idx, phase1_passes, semantic_candidates, results,
                    stats, fallback, call, module_weights, ratings_failed, previous,
                    parse, resume_db, profile_db >>

\* PipeOcr writing raw_text to the row as soon as OCR returns
PipeOcr_mut ==
    /\ pc = "ocr"
    /\ \E ok \in BOOLEAN, text \in RawTexts :
          IF ok
          THEN /\ pipe' = [pipe EXCEPT !.raw_text = text]
               /\ resume_db' = [resume_db EXCEPT !.raw_text = text, !.saves = @ + 1]
               /\ pc' = "pparse"
               /\ UNCHANGED response
          ELSE PipeFail("ocr") /\ UNCHANGED resume_db
    /\ UNCHANGED << engine, project, pool, top_n, idx, phase1_passes, semantic_candidates,
                    results, stats, fallback, call, module_weights, ratings_failed,
                    previous, parse, profile_db >>

\* resume_pipeline.py:28-30; extract_text_from_pdf returns a text or raises
PipeOcr ==
    /\ pc = "ocr"
    /\ \E ok \in BOOLEAN, text \in RawTexts :
          IF ok
          THEN /\ pipe' = [pipe EXCEPT !.raw_text = text]
               /\ pc' = "pparse"
               /\ UNCHANGED response
          ELSE PipeFail("ocr")
    /\ UNCHANGED << engine, project, pool, top_n, idx, phase1_passes, semantic_candidates,
                    results, stats, fallback, call, module_weights, ratings_failed,
                    previous, parse, resume_db, profile_db >>

\* resume_pipeline.py:32-34; parse_resume catches every Exception itself
PipeParse ==
    /\ pc = "pparse"
    /\ \E parsed_json \in ParseResults :
          /\ pipe' = [pipe EXCEPT !.parsed_json = parsed_json]
          /\ pc' = "semantic"
    /\ UNCHANGED << engine, project, pool, top_n, idx, phase1_passes, semantic_candidates,
                    results, stats, fallback, response, call, module_weights,
                    ratings_failed, previous, parse, resume_db, profile_db >>

\* resume_pipeline.py:36-38; build_semantic_text returns a text or raises
PipeSemantic ==
    /\ pc = "semantic"
    /\ \E ok \in BOOLEAN, text \in SemanticTexts :
          IF ok
          THEN /\ pipe' = [pipe EXCEPT !.semantic_text = text]
               /\ pc' = "embed"
               /\ UNCHANGED response
          ELSE PipeFail("semantic")
    /\ UNCHANGED << engine, project, pool, top_n, idx, phase1_passes, semantic_candidates,
                    results, stats, fallback, call, module_weights, ratings_failed,
                    previous, parse, resume_db, profile_db >>

\* resume_pipeline.py:40-42
PipeEmbed ==
    /\ pc = "embed"
    /\ \E api_up \in BOOLEAN :
          LET embedding == embed_semantic_text(pipe.semantic_text, api_up)
          IN  IF IsRaise(embedding) THEN PipeFail("embed")
              ELSE /\ pipe' = [pipe EXCEPT !.embedding = embedding.v]
                   /\ pc' = "save"
                   /\ UNCHANGED response
    /\ UNCHANGED << engine, project, pool, top_n, idx, phase1_passes, semantic_candidates,
                    results, stats, fallback, call, module_weights, ratings_failed,
                    previous, parse, resume_db, profile_db >>

\* resume_pipeline.py:44-52; the save goes through or raises
PipeSave ==
    /\ pc = "save"
    /\ \E ok \in BOOLEAN :
          IF ok
          THEN /\ resume_db' = [raw_text |-> pipe.raw_text, parsed_json |-> pipe.parsed_json,
                                semantic_text |-> pipe.semantic_text,
                                embedding |-> pipe.embedding, saves |-> resume_db.saves + 1]
               /\ pc' = "consolidate"
               /\ UNCHANGED << pipe, response >>
          ELSE PipeFail("save") /\ UNCHANGED resume_db
    /\ UNCHANGED << engine, project, pool, top_n, idx, phase1_passes, semantic_candidates,
                    results, stats, fallback, call, module_weights, ratings_failed,
                    previous, parse, profile_db >>

\* resume_pipeline.py:54-100; parsed_json.get raises on a value that is no dict
PipeConsolidate ==
    /\ pc = "consolidate"
    /\ \E ok \in BOOLEAN :
          IF pipe.parsed_json.json # "object" \/ ~ok
          THEN PipeFail("consolidate") /\ UNCHANGED profile_db
          ELSE /\ profile_db' = [profile_json |-> [from |-> pipe.parsed_json],
                                 saves |-> profile_db.saves + 1]
               /\ response' = Return([text_len |-> TextLen(pipe.raw_text),
                                      embedding_dim |-> Len(pipe.embedding)])
               /\ pc' = "piped"
               /\ UNCHANGED pipe
    /\ UNCHANGED << engine, project, pool, top_n, idx, phase1_passes, semantic_candidates,
                    results, stats, fallback, call, module_weights, ratings_failed,
                    previous, parse, resume_db >>

(***************************************************************************)
(* Direct calls of the scorers, over bounded inputs.                       *)
(***************************************************************************)
SkillNames == { "Python", "python", "ml", "sql" }
SkillCategories == { "languages", "tools" }
CategoryValues == { List(v) : v \in SeqsUpTo(SkillNames, MaxSkillList) } \cup { Str("python") }
RequiredLists == SeqsUpTo(SkillNames, MaxReq)
UserSkillDicts == [SkillCategories -> CategoryValues]

ProjectTypes == { "hackathon", "research", "startup", "open_source", "workshop", "Hackathon" }
ExperienceNames == { "beginner", "intermediate", "advanced", "expert" }

YearChars == { "1", "3", " ", "-", "x" }
UserYears == { None } \cup { Num(n) : n \in 0..MaxPreferredYear }
             \cup { Str(v) : v \in SeqsUpTo(YearChars, MaxYearLen) }
PreferredYears == { None } \cup { Num(n) : n \in 0..MaxPreferredYear }

\* thousandths of a star, in steps of half a star, beyond [0, 5] on both sides
AverageRatings == { 500 * k : k \in -1..11 }
CompletedCounts == 0..MaxCompleted

Availabilities == { None } \cup { Str(a) : a \in { "high", "High", "medium", "MEDIUM",
                                                   "low", "Low", "", "weekends" } }

SignalGrid == { 0, SCALE \div 2, ONE }
SemanticGrid == SignalGrid \cup { -(SCALE \div 2) }
Thresholds == { SEMANTIC_THRESHOLD, (35 * SCALE) \div 100, (96 * SCALE) \div 100 }

\* Rating rows as submit_rating_record creates them: adjusted_rating = raw_rating,
\* a value rounded to three decimals
Ratees == { 1, 2 }
AdjustedRatings == { 1000, 2750, 4200, 5000 }
RatingStores == SeqsUpTo([ratee_id : Ratees, adjusted_rating : AdjustedRatings], MaxRatings)

engineVars == << pc, engine, project, pool, top_n, idx, phase1_passes,
                semantic_candidates, results, stats, fallback, response,
                module_weights, ratings_failed, previous, pipelineVars >>

CallSemanticGate ==
    /\ Idle
    /\ \E a \in GateEmbeddings, b \in GateEmbeddings, th \in Thresholds :
          call' = [fn |-> "semantic_gate", args |-> << a, b, th >>,
                   ret |-> semantic_gate(a, b, th)]
    /\ UNCHANGED engineVars

CallSkillMatch ==
    /\ Idle
    /\ \E req \in RequiredLists, us \in UserSkillDicts \cup { << >> } :
          call' = [fn |-> "score_skill_match", args |-> << req, us >>,
                   ret |-> score_skill_match(req, us)]
    /\ UNCHANGED engineVars

CallExperienceAlignment ==
    /\ Idle
    /\ \E pt \in ProjectTypes, lvl \in ExperienceNames :
          call' = [fn |-> "score_experience_alignment", args |-> << pt, lvl >>,
                   ret |-> score_experience_alignment(pt, lvl)]
    /\ UNCHANGED engineVars

CallYearCompatibility ==
    /\ Idle
    /\ \E uy \in UserYears, py \in PreferredYears :
          call' = [fn |-> "score_year_compatibility", args |-> << uy, py >>,
                   ret |-> score_year_compatibility(uy, py)]
    /\ UNCHANGED engineVars

CallReputation ==
    /\ Idle
    /\ \E r \in AverageRatings, n \in CompletedCounts :
          call' = [fn |-> "score_reputation", args |-> << r, n >>,
                   ret |-> score_reputation(r, n)]
    /\ UNCHANGED engineVars

CallAvailability ==
    /\ Idle
    /\ \E a \in Availabilities :
          call' = [fn |-> "score_availability", args |-> << a >>,
                   ret |-> score_availability(a)]
    /\ UNCHANGED engineVars

CallFinalScore ==
    /\ Idle
    /\ \E sem \in SemanticGrid, sk \in SignalGrid, ex \in SignalGrid,
          yr \in SignalGrid, rep \in SignalGrid, av \in SignalGrid :
          call' = [fn |-> "compute_final_score", args |-> << sem, sk, ex, yr, rep, av >>,
                   ret |-> compute_final_score(sem, sk, ex, yr, rep, av)]
    /\ UNCHANGED engineVars

CallGlobalRating ==
    /\ Idle
    /\ \E ratings \in RatingStores, ratee_id \in Ratees :
          call' = [fn |-> "get_global_rating_data", args |-> << ratings, ratee_id >>,
                   ret |-> get_global_rating_data(ratings, ratee_id)]
    /\ UNCHANGED engineVars

Next ==
    \/ ReceiveCli
    \/ CliGateStep
    \/ CliGateDone
    \/ CliScoreStep
    \/ CliFinish
    \/ CliAgain
    \/ MainNoArgs
    \/ MainExit
    \/ ReceiveService
    \/ ServiceLoopStep
    \/ ServiceFinish
    \/ ServiceAgain
    \/ ReceiveView
    \/ ViewGateStep
    \/ ViewGateDone
    \/ ViewScoreStep
    \/ ViewFinish
    \/ CallSemanticGate
    \/ CallSkillMatch
    \/ CallExperienceAlignment
    \/ CallYearCompatibility
    \/ CallReputation
    \/ CallAvailability
    \/ CallFinalScore
    \/ CallGlobalRating
    \/ ParseStart
    \/ ParseAttempt
    \/ PipeStart
    \/ PipeOcr
    \/ PipeParse
    \/ PipeSemantic
    \/ PipeEmbed
    \/ PipeSave
    \/ PipeConsolidate

Spec == Init /\ [][Next]_vars

(***************************************************************************)
(* Properties.                                                             *)
(***************************************************************************)
SixSignalRun == engine \in { "cli", "service" }
Returned == pc = "done" /\ response.kind = "return"

\* the cosine of candidate i against the project, for a candidate with an embedding
RawSimilarity(i) == compute_semantic_similarity(project.embedding, pool[i].embedding).v

WithEmbedding == { i \in 1..Len(pool) : Truthy(pool[i].embedding) }

NobodyPassesGate ==
    /\ project # NoProject
    /\ Truthy(project.embedding)
    /\ WithEmbedding # {}
    /\ \A i \in WithEmbedding : RawSimilarity(i) < SEMANTIC_THRESHOLD

\* C1: in the six-signal engine, when no candidate reaches the gate threshold
\* but some candidate has a usable embedding, the returned ranked list is not
\* empty (for the service: whenever a positive result size was requested).
C1_GateFallbackNonEmpty ==
    (Returned /\ SixSignalRun /\ NobodyPassesGate /\ (engine = "service" => top_n >= 1))
        => response.value # << >>

FallbackFlagKeys == { "fallback", "fallback_triggered", "fallback_used", "is_fallback" }

HasFallbackFlag(body) ==
    \E k \in FallbackFlagKeys :
        \/ k \in DOMAIN body /\ body[k] = TRUE
        \/ k \in DOMAIN body.stats /\ body.stats[k] = TRUE

\* C2: a response of match_project whose matches were produced by the gate
\* fallback carries a fallback flag in its metadata or statistics, and a response
\* produced without fallback carries none.
C2_FallbackFlagged ==
    (pc = "done" /\ engine = "view" /\ response.kind = "http" /\ response.status = 200)
        => /\ (fallback /\ response.body.matches # << >>) => HasFallbackFlag(response.body)
           /\ ~fallback => ~HasFallbackFlag(response.body)

InUnit(x) == 0 <= x /\ x <= ONE

\* C3: for six signal scores in [0,1], compute_final_score returns a value in [0,1].
C3_FinalScoreBounded ==
    (call.fn = "compute_final_score" /\ \A i \in 1..6 : InUnit(call.args[i]))
        => (0 <= call.ret /\ call.ret <= SUMSCALE)

C3_Witness ==
    /\ call.fn = "compute_final_score"
    /\ \A i \in 1..6 : call.args[i] = ONE
    /\ call.ret = SUMSCALE

\* C4: every match record returned by the six-signal engine has its final score
\* and each of its six signal scores in [0,1].
C4_RecordScoresInUnitInterval ==
    (Returned /\ SixSignalRun) =>
        \A i \in 1..Len(response.value) :
            /\ InUnit(response.value[i].final_score)
            /\ InUnit(response.value[i].semantic_score)
            /\ InUnit(response.value[i].skill_score)
            /\ InUnit(response.value[i].experience_score)
            /\ InUnit(response.value[i].year_score)
            /\ InUnit(response.value[i].reputation_score)
            /\ InUnit(response.value[i].availability_score)

\* C5: the returned list is in non-increasing order of final_score, and records
\* of equal final_score keep the relative order of the input candidates
\* (a record's user_id is its candidate's place in the input).
C5_SortedAndStable ==
    (Returned /\ SixSignalRun) =>
        \A i \in 1..Len(response.value), j \in 1..Len(response.value) :
            i < j =>
                /\ response.value[i].final_score >= response.value[j].final_score
                /\ response.value[i].final_score = response.value[j].final_score
                      => response.value[i].user_id < response.value[j].user_id

C5_Witness ==
    /\ Returned /\ SixSignalRun
    /\ Len(response.value) = 2
    /\ response.value[1].final_score = response.value[2].final_score

\* C6: for average_rating in [0,5] and completed_projects >= 1, score_reputation
\* returns (average_rating / 5) * min(1, completed_projects / 5).
C6_ReputationFormula ==
    (call.fn = "score_reputation" /\ 0 <= call.args[1] /\ call.args[1] <= 5000
        /\ call.args[2] >= 1)
        => call.ret * 5000 * 5 = call.args[1] * SCALE * Min(5, call.args[2])

\* C7: with completed_projects = 0, score_reputation returns 1.0 for every rating.
C7_ColdStart ==
    (call.fn = "score_reputation" /\ call.args[2] = 0) => call.ret = ONE

C7_Witness ==
    call.fn = "score_reputation" /\ call.args = << 2500, 0 >> /\ call.ret = ONE

\* C8: score_skill_match returns |R \cap C| / |R| for R the lower-cased required
\* skills and C the lower-cased skills of all list-valued categories, and 1.0
\* when nothing is required.
C8_SkillMatch ==
    call.fn = "score_skill_match" =>
        LET req == call.args[1]
            us == call.args[2]
            R == { Lower(req[i]) : i \in 1..Len(req) }
            named == { x \in SkillNames :
                         \E c \in DOMAIN us : us[c].t = "list"
                                              /\ \E i \in 1..Len(us[c].v) : us[c].v[i] = x }
            C == { Lower(x) : x \in named }
        IN  IF req = << >> THEN call.ret = ONE
            ELSE call.ret * Cardinality(R) = Cardinality(R \cap C) * SCALE

C8_Witness ==
    /\ call.fn = "score_skill_match"
    /\ call.args = << << "python", "ml" >>,
                      [languages |-> List(<< "python" >>), tools |-> List(<< "sql" >>)] >>
    /\ call.ret = SCALE \div 2

PreferredRank(project_type) ==
    CASE project_type = "hackathon" -> 2
      [] project_type = "research" -> 3
      [] project_type = "startup" -> 2
      [] project_type = "open_source" -> 1
      [] OTHER -> 2

LevelRank(level) ==
    CASE level = "beginner" -> 1
      [] level = "intermediate" -> 2
      [] level = "advanced" -> 3

\* C9: score_experience_alignment returns 1.0 when the candidate's level equals
\* the level preferred by the project type, 0.3 when it is below, 0.8 when it is
\* above, and no other value.
C9_ExperienceAlignment ==
    call.fn = "score_experience_alignment" =>
        LET pt == call.args[1]
            lvl == call.args[2]
        IN  /\ call.ret \in { ONE, (3 * SCALE) \div 10, (8 * SCALE) \div 10 }
            /\ lvl \in { "beginner", "intermediate", "advanced" } =>
                  /\ LevelRank(lvl) = PreferredRank(pt) => call.ret = ONE
                  /\ LevelRank(lvl) < PreferredRank(pt) => call.ret = (3 * SCALE) \div 10
                  /\ LevelRank(lvl) > PreferredRank(pt) => call.ret = (8 * SCALE) \div 10

C9_Witness ==
    /\ call.fn = "score_experience_alignment"
    /\ call.args = << "research", "intermediate" >>
    /\ call.ret = (3 * SCALE) \div 10

\* a year written as an optional sign and decimal digits, blanks around it ignored
IsDigit(c) == c \in { "0", "1", "2", "3", "4", "5", "6", "7", "8", "9" }
NumericYear(y) ==
    \/ y.t = "int"
    \/ /\ y.t = "str"
       /\ \E a \in 1..Len(y.s), b \in 1..Len(y.s) :
             /\ a <= b
             /\ \A i \in 1..Len(y.s) : (i < a \/ i > b) => y.s[i] = " "
             /\ \/ \A i \in a..b : IsDigit(y.s[i])
                \/ a < b /\ y.s[a] \in { "-", "+" } /\ \A i \in (a + 1)..b : IsDigit(y.s[i])

\* C10: score_year_compatibility returns 1.0 without a preferred year or with a
\* missing or non-numeric candidate year, and otherwise
\* max(0, 1 - 0.25 * |candidate_year - preferred_year|): 1.0 for equal years,
\* 0.0 for a gap of four years or more, never outside [0,1].
C10_YearCompatibility ==
    call.fn = "score_year_compatibility" =>
        LET uy == call.args[1]
            py == call.args[2]
        IN  /\ InUnit(call.ret)
            /\ (py = None \/ ~NumericYear(uy)) => call.ret = ONE
            /\ (py # None /\ NumericYear(uy)) =>
                  LET gap == Abs(ParseInt(uy).v - py.n)
                  IN  /\ call.ret = Max(0, ONE - (SCALE \div 4) * gap)
                      /\ gap = 0 => call.ret = ONE
                      /\ gap >= 4 => call.ret = 0

C10_Witness ==
    /\ call.fn = "score_year_compatibility"
    /\ call.args = << Str(<< "1" >>), Num(5) >>
    /\ call.ret = 0

\* C11: score_availability returns 1.0 for high, 0.7 for medium, 0.4 for low in
\* any letter case and 0.5 for every other input, a null value included; it never
\* raises, so no matching run is aborted by a candidate's availability.
C11_AvailabilityNeverRaises ==
    /\ call.fn = "score_availability" =>
           /\ call.ret.t = "ok"
           /\ LET a == call.args[1]
              IN  call.ret.v =
                     IF a \in { Str("high"), Str("High") } THEN ONE
                     ELSE IF a \in { Str("medium"), Str("MEDIUM") } THEN (7 * SCALE) \div 10
                     ELSE IF a \in { Str("low"), Str("Low") } THEN (4 * SCALE) \div 10
                     ELSE SCALE \div 2
    /\ (pc = "done" /\ response.kind = "raise") => response.exc # "AttributeError"

\* C12: every match record returned by match_users_to_project and by
\* match_users_for_project carries six weighted contributions, each the configured
\* weight times the record's signal score, and final_score is computed from their sum.
C12_WeightedContributions ==
    (Returned /\ SixSignalRun) =>
        \A i \in 1..Len(response.value) :
            LET r == response.value[i]
            IN  /\ "score_breakdown" \in DOMAIN r
                /\ LET b == r.score_breakdown
                   IN  /\ b.w_semantic = module_weights.semantic * r.semantic_score
                       /\ b.w_skill = module_weights.skill * r.skill_score
                       /\ b.w_experience = module_weights.experience * r.experience_score
                       /\ b.w_year = module_weights.year * r.year_score
                       /\ b.w_reputation = module_weights.reputation * r.reputation_score
                       /\ b.w_availability = module_weights.availability * r.availability_score
                       /\ r.final_score =
                              Round4(Min(SUMSCALE, b.w_semantic + b.w_skill + b.w_experience
                                                   + b.w_year + b.w_reputation
                                                   + b.w_availability), SUMSCALE)

FinalScoreOf(v) == compute_final_score(v[1], v[2], v[3], v[4], v[5], v[6])

\* C14: of two signal vectors that differ in one signal only, the one with the
\* larger value of that signal has the larger or equal compute_final_score.
C14_Monotone ==
    call.fn = "compute_final_score" =>
        \A i \in 1..6 :
            \A v \in (IF i = 1 THEN SemanticGrid ELSE SignalGrid) :
                v >= call.args[i] => FinalScoreOf([call.args EXCEPT ![i] = v]) >= call.ret

C14_Witness ==
    /\ call.fn = "compute_final_score"
    /\ call.args[6] = 0
    /\ FinalScoreOf([call.args EXCEPT ![6] = ONE]) > call.ret

ZeroVector(a) == a # << >> /\ \A i \in 1..Len(a) : a[i] = 0

\* C15: with an all-zero project or candidate embedding, semantic_gate under the
\* default threshold does not raise, reports similarity 0 and passes = False.
C15_ZeroVectorFailsGate ==
    (/\ call.fn = "semantic_gate"
     /\ call.args[3] = SEMANTIC_THRESHOLD
     /\ Len(call.args[1]) = Len(call.args[2])
     /\ ZeroVector(call.args[1]) \/ ZeroVector(call.args[2]))
        => /\ call.ret.t = "ok"
           /\ call.ret.similarity = 0
           /\ call.ret.passes = FALSE

ProjectUnresolved == project = NoProject \/ ~Truthy(project.embedding)

\* C16: when the project does not exist or has no embedding, the entry point ends
\* with an error outcome (NotFound / Unprocessable) that the caller can tell from
\* an empty ranking, and no candidate has been gated or scored.
C16_MissingProjectFails ==
    (pc = "done" /\ ProjectUnresolved) =>
        /\ \/ response.kind = "raise"
           \/ response.kind = "http" /\ response.status \in { 400, 404, 422 }
        /\ idx = 0
        /\ results = << >>

\* the project resolves and the entry point starts its loop over the pool
ProjectResolved ==
    /\ ~ProjectUnresolved
    /\ engine = "view" => project.json # << >>

MissingEmbeddings == { i \in 1..Len(pool) : ~Truthy(pool[i].embedding) }

\* nothing but a missing embedding is wrong with the pool
PoolOtherwiseSound ==
    \A i \in 1..Len(pool) :
        /\ Len(pool[i].embedding) \in { 0, Len(project.embedding) }
        /\ pool[i].json # ResumeNullAvailability

\* C17: a candidate without an embedding never aborts a matching run: the run
\* completes, every candidate that has an embedding and passes the gate is scored,
\* and the statistics count the excluded candidates (pool size minus the number
\* with embeddings).
C17_MissingEmbeddingSkipped ==
    (pc = "done" /\ ProjectResolved /\ PoolOtherwiseSound) =>
        /\ \/ response.kind = "return"
           \/ response.kind = "http" /\ response.status = 200
        /\ engine \in { "service", "view" } =>
               Len(pool) - stats.resumes_with_embeddings = Cardinality(MissingEmbeddings)
        /\ SixSignalRun =>
               Len(results) = Cardinality({ i \in 1..Len(pool) \ MissingEmbeddings :
                                               RawSimilarity(i) >= SEMANTIC_THRESHOLD })

WidthMismatch(a, b) == Len(a) # 0 /\ Len(b) # 0 /\ Len(a) # Len(b)

\* C18: an embedding pair of differing widths makes the similarity computation
\* raise, and a six-signal matching run over a pool with such a candidate ends in
\* an error outcome, not in a ranking.
C18_WidthMismatchRaises ==
    /\ (call.fn = "semantic_gate" /\ WidthMismatch(call.args[1], call.args[2]))
           => call.ret.t = "raise"
    /\ (/\ pc = "done" /\ SixSignalRun /\ ProjectResolved
        /\ \E i \in 1..Len(pool) : WidthMismatch(project.embedding, pool[i].embedding))
           => response.kind = "raise"

C18_Witness ==
    /\ pc = "done" /\ engine = "service" /\ ProjectResolved
    /\ Len(pool) = 2
    /\ ~WidthMismatch(project.embedding, pool[1].embedding)
    /\ WidthMismatch(project.embedding, pool[2].embedding)
    /\ results # << >>
    /\ response = Raise("ValueError")

\* C19: the script exits with a non-zero status when the project id is not in the
\* project embeddings or the project has no embedding, and with status zero and an
\* empty result list when the project resolves and the pool is empty.
C19_ExitStatus ==
    pc = "exited" =>
        /\ ProjectUnresolved => response.status # 0
        /\ (~ProjectUnresolved /\ pool = << >>)
               => (response.status = 0 /\ response.matches = << >>)

\* C20: a candidate whose get_global_rating_data call raised is scored by
\* match_project with global_rating = 3.5 and ratings_count = 0, whatever its stored
\* average_rating, and the remaining candidates are still scored.
C20_RatingsUnavailable ==
    (engine = "view" /\ pc = "done" /\ response.kind = "http" /\ response.status = 200) =>
        /\ Len(response.body.matches) = Len(phase1_passes)
        /\ \A i \in 1..Len(response.body.matches) :
               LET m == response.body.matches[i]
               IN  m.resume_id \in ratings_failed
                      => m.ratings = [global_rating |-> PRIOR_MEAN, ratings_count |-> 0]

RECURSIVE SumOfAdjusted(_, _)
SumOfAdjusted(ratings, rows) ==
    IF rows = {} THEN 0
    ELSE LET i == CHOOSE j \in rows : TRUE
         IN  ratings[i].adjusted_rating + SumOfAdjusted(ratings, rows \ { i })

RateeRows(ratings, ratee_id) == { i \in 1..Len(ratings) : ratings[i].ratee_id = ratee_id }

\* C21 as stated: get_global_rating_data returns exactly
\* (3.5 * 3 + sum of the ratee's adjusted ratings) / (3 + count), with ratings_count
\* = count, over the ratings of that ratee only, and 3.5 with count 0 without ratings.
C21_GlobalRatingExact ==
    call.fn = "get_global_rating_data" =>
        LET rows == RateeRows(call.args[1], call.args[2])
            count == Cardinality(rows)
        IN  /\ call.ret.ratings_count = count
            /\ call.ret.global_rating * (PRIOR_WEIGHT + count)
                  = PRIOR_MEAN * PRIOR_WEIGHT + SumOfAdjusted(call.args[1], rows)

\* C21, amended: the returned global_rating is that quotient rounded to three
\* decimals (within half a thousandth of it); ratings_count = count; only the
\* ratee's own ratings enter; without ratings the result is 3.5 with count 0.
C21_GlobalRatingRounded ==
    call.fn = "get_global_rating_data" =>
        LET rows == RateeRows(call.args[1], call.args[2])
            count == Cardinality(rows)
            num == PRIOR_MEAN * PRIOR_WEIGHT + SumOfAdjusted(call.args[1], rows)
            den == PRIOR_WEIGHT + count
        IN  /\ call.ret.ratings_count = count
            /\ 2 * Abs(call.ret.global_rating * den - num) <= den
            /\ count = 0 => call.ret.global_rating = PRIOR_MEAN

C21_Witness ==
    /\ call.fn = "get_global_rating_data"
    /\ call.args[2] = 1
    /\ Cardinality(RateeRows(call.args[1], 1)) = 1
    /\ Cardinality(RateeRows(call.args[1], 2)) = 1
    /\ call.ret.global_rating * 4 # PRIOR_MEAN * PRIOR_WEIGHT
                                      + SumOfAdjusted(call.args[1], RateeRows(call.args[1], 1))

PassingCandidates == { i \in WithEmbedding : RawSimilarity(i) >= SEMANTIC_THRESHOLD }

\* C24: in match_users_to_project and match_users_for_project a candidate is scored
\* and is in the untruncated ranking if and only if it has an embedding whose cosine
\* to the project embedding is >= the threshold; each such candidate is there once,
\* and the count that passed the gate is the number of records scored.
C24_GateIff ==
    /\ (call.fn = "semantic_gate" /\ call.ret.t = "ok")
           => (call.ret.passes <=> call.ret.similarity >= call.args[3])
    /\ (Returned /\ SixSignalRun /\ ProjectResolved) =>
           /\ { results[k].user_id : k \in 1..Len(results) } = PassingCandidates
           /\ Len(results) = Cardinality(PassingCandidates)
           /\ engine = "service" => stats.passed_gate = Len(results)
           /\ engine = "cli" => Len(phase1_passes) = Len(results)

C24_Witness ==
    /\ Returned /\ engine = "service" /\ ProjectResolved
    /\ Len(pool) = 2
    /\ Cardinality(WithEmbedding) = 2
    /\ Cardinality(PassingCandidates) = 1
    /\ Len(results) = 1

\* C25: the gate phase is completed over the whole pool before any composite score
\* is computed: while a candidate's gate decision is pending, no record exists.
C25_GateBeforeScore ==
    (SixSignalRun /\ pc \in { "gate", "loop", "score" } /\ results # << >>) =>
        IF engine = "cli" THEN pc = "score" ELSE idx = Len(pool)

\* C26: for top_n >= 0, match_users_for_project returns min(top_n, number of
\* candidates that passed the gate) records, the first ones of the full descending
\* ranking: no record left out has a final_score above a returned one.
C26_TopNSlice ==
    (Returned /\ engine = "service" /\ top_n >= 0) =>
        LET passed == IF ProjectResolved THEN Cardinality(PassingCandidates) ELSE 0
            n == Len(response.value)
        IN  /\ n = Min(top_n, passed)
            /\ \A k \in 1..n : response.value[k] = results[k]
            /\ \A k \in 1..n : \A j \in (n + 1)..Len(results) :
                   results[j].final_score <= response.value[k].final_score

C26_Witness ==
    /\ Returned /\ engine = "service"
    /\ top_n = 1
    /\ Len(results) = 2
    /\ Len(response.value) = 1
    /\ results[2].final_score < response.value[1].final_score

C28_YearScoreConstant ==
    (Returned /\ SixSignalRun) =>
        \A k \in 1..Len(response.value) :
            LET r == response.value[k]
            IN  /\ r.year_score = ONE
                /\ engine = "cli" => r.score_breakdown.w_year = 12 * ONE
                /\ r.final_score =
                      Round4(Min(SUMSCALE, 20 * r.semantic_score + 30 * r.skill_score
                                           + 20 * r.experience_score + 12 * ONE
                                           + 10 * r.reputation_score
                                           + 8 * r.availability_score), SUMSCALE)

C28_Witness ==
    /\ Returned /\ SixSignalRun
    /\ Len(response.value) = 2
    /\ Get(Get(pool[response.value[1].user_id].json, "profile", << >>), "year", None)
          = Str(<< "2", "4" >>)
    /\ Get(Get(pool[response.value[2].user_id].json, "profile", << >>), "year", None) = None
    /\ response.value[1].year_score = ONE
    /\ response.value[2].year_score = ONE

AttemptFailed(reply) == IsRaise(ParseAttemptBody(reply))

\* C29: parse_resume ends by returning a dict and never raises; it calls the LLM at
\* most MAX_RETRIES = 3 times, returns the result of the first attempt that succeeds
\* and makes no further attempt, sleeps only after a failed attempt that is not the
\* last, and returns the minimal RESUME_SCHEMA when all 3 attempts fail.
C29_ParseResumeRetries ==
    /\ engine = "parse_resume" =>
           /\ Len(parse.replies) <= MAX_RETRIES
           /\ response.kind # "raise"
           /\ pc = "parse" => \A k \in 1..Len(parse.replies) : AttemptFailed(parse.replies[k])
    /\ (engine = "parse_resume" /\ pc = "parsed") =>
           LET n == Len(parse.replies)
           IN  /\ response.kind = "return"
               /\ response.value.json = "object"
               /\ \A k \in 1..(n - 1) : AttemptFailed(parse.replies[k])
               /\ parse.sleeps = n - 1
               /\ AttemptFailed(parse.replies[n]) =>
                      (n = MAX_RETRIES /\ response.value = MinimalSchema)
               /\ ~AttemptFailed(parse.replies[n]) =>
                      response.value = ParseAttemptBody(parse.replies[n]).v

StagesBeforeSave == { "path", "ocr", "parse", "semantic", "embed" }

\* C30: process_resume_instance saves raw_text, parsed_json, semantic_text and
\* embedding in one save, after OCR, parse, semantic build and embed all succeeded;
\* if a stage raises it returns None, propagates nothing and saves neither the
\* resume fields nor profile_json; when it returns a summary, the four fields
\* were saved.
C30_PersistTogether ==
    engine = "pipeline" =>
        /\ response.kind # "raise"
        /\ pc \in { "ocr", "pparse", "semantic", "embed", "save" }
               => (resume_db = NewResume /\ profile_db = NewProfile)
        /\ (pc = "piped" /\ pipe.raised \in StagesBeforeSave)
               => /\ response = Return(None)
                  /\ resume_db = NewResume
                  /\ profile_db = NewProfile
        /\ resume_db # NewResume
               => /\ resume_db.saves = 1
                  /\ resume_db.raw_text = pipe.raw_text
                  /\ resume_db.parsed_json = pipe.parsed_json
                  /\ resume_db.semantic_text = pipe.semantic_text
                  /\ resume_db.embedding = pipe.embedding
                  /\ pipe.embedding # None
        /\ (pc = "piped" /\ response.value # None)
               => /\ resume_db.saves = 1
                  /\ resume_db.embedding = pipe.embedding
                  /\ pipe.raised = "none"

C30_Witness ==
    /\ engine = "pipeline" /\ pc = "piped"
    /\ response.value # None
    /\ resume_db.saves = 1
    /\ resume_db.raw_text = "text"
    /\ resume_db.embedding = << 3, 4 >>
    /\ profile_db.saves = 1

====
